---- MODULE Spec2Model ----
(***************************************************************************)
(* Model of the node-mvc-demo application: the bootstrap (app.js), the    *)
(* store connector (config/database.js) and the three handlers of the     *)
(* item controller (controllers/itemController.js), running against a      *)
(* document store that answers each call atomically, at some later time,  *)
(* with a success or a failure.                                            *)
(***************************************************************************)
EXTENDS Integers, Sequences, FiniteSets, TLC

\* ---- bounds ------------------------------------------------------------
MaxReqs == 3      \* number of requests handled in one run
MaxId == 2        \* number of identifiers the store can assign

\* ---- values ------------------------------------------------------------
Reqs == 1..MaxReqs

\* req.params.id is a string; 1..MaxId stand for the strings that cast to an
\* ObjectId, BadId for one that does not (such as "abc")
BadId == 0
IdParams == 0..MaxId

\* a JavaScript value as found in req.body.name
JsUndefined == [t |-> "undefined", v |-> ""]
JsString(s) == [t |-> "string", v |-> s]
NameInputs == {JsUndefined} \cup {JsString(s) : s \in {"", "Milk", "Eggs"}}

\* ---- responses ---------------------------------------------------------
Redirect == [status |-> 302, kind |-> "redirect", text |-> "/", list |-> <<>>]
Error500(msg) == [status |-> 500, kind |-> "send", text |-> msg, list |-> <<>>]

\* views/index.pug: ul / each item in items / li= item.name
View(items) == [i \in 1..Len(items) |-> items[i].name]
Render(items) == [status |-> 200, kind |-> "render", text |-> "index", list |-> View(items)]

\* ---- pure helpers ------------------------------------------------------
\* the truthiness test of `!name`
FalsyUndefinedOnly(x) == x.t = "undefined"
Falsy(x) == x.t = "undefined" \/ x.v = ""

\* itemSchema: name: { type: String, required: true }
SchemaValid(x) == x.t = "string" /\ x.v # ""

\* the cast of the id parameter to an ObjectId done by findByIdAndDelete
CastOk(p) == p # BadId

\* Item.find(): every item of the store, in an order the store chooses
Find(s) == {q \in [1..Cardinality(s) -> s] : \A x \in s : \E i \in 1..Cardinality(s) : q[i] = x}

\* new Item({ name }).save(): the document is validated against the schema,
\* then inserted as one new record under a fresh identifier
SaveUnique(s, id, x) ==
    [ok |-> SchemaValid(x),
     store |-> IF \E y \in s : y.name = x.v THEN s ELSE s \cup {[id |-> id, name |-> x.v]}]
SaveBlank(s, id, x) == [ok |-> TRUE, store |-> s \cup {[id |-> id, name |-> ""]}]
Save(s, id, x) ==
    IF SchemaValid(x)
    THEN [ok |-> TRUE, store |-> s \cup {[id |-> id, name |-> x.v]}]
    ELSE [ok |-> FALSE, store |-> s]

\* Item.findByIdAndDelete(id): removes the record with that identifier, if any
DeleteMany(s, id) == {}
DeleteFirst(s, id) == {x \in s : \E y \in s : y.id < x.id}
FindByIdAndDelete(s, id) == {x \in s : x.id # id}

\* what each handler sends once its store call has settled
getItemsResumeEmptyList(res) == <<Render(res.items)>>
addItemResumeSilent(res) == IF res.ok THEN <<Redirect>> ELSE <<>>
deleteItemResumeNotFound(res) == IF res.ok /\ res.found THEN <<Redirect>> ELSE <<Error500("Error deleting item")>>
getItemsResume(res) == IF res.ok THEN <<Render(res.items)>> ELSE <<Error500("Error fetching items")>>
addItemResume(res) == IF res.ok THEN <<Redirect>> ELSE <<Error500("Error saving item")>>
deleteItemResume(res) == IF res.ok THEN <<Redirect>> ELSE <<Error500("Error deleting item")>>

\* the connector's catch block: console.error, then process.exit(1)
connectCatchLogOnly == [exited |-> FALSE, exitCode |-> 0]
connectCatch == [exited |-> TRUE, exitCode |-> 1]

\* ---- state -------------------------------------------------------------
VARIABLES bootpc, conn, attempts, listening, exited, exitCode,
          store0, store, nextId, req, started, lastOp

vars == <<bootpc, conn, attempts, listening, exited, exitCode,
          store0, store, nextId, req, started, lastOp>>

\* what the store may hold when the process starts: nothing, or an item
\* saved by an earlier run
InitialStores == {{}, {[id |-> 1, name |-> "Milk"]}}

NoRes == [ok |-> FALSE, items |-> <<>>, found |-> FALSE]
NoOp == [kind |-> "none", id |-> BadId, ok |-> FALSE]
NoReq == [kind |-> "none", name |-> JsUndefined, id |-> BadId, pc |-> "new",
          res |-> NoRes, resp |-> <<>>, clean |-> FALSE, prev |-> NoOp,
          matched |-> FALSE]

Init ==
    /\ bootpc = "start"
    /\ conn = "none"
    /\ attempts = 0
    /\ listening = FALSE
    /\ exited = FALSE
    /\ exitCode = 0
    /\ store0 \in InitialStores
    /\ store = store0
    /\ nextId = Cardinality(store0) + 1
    /\ req = [r \in Reqs |-> NoReq]
    /\ started = 0
    /\ lastOp = NoOp

\* ---- bootstrap and connector -------------------------------------------
\* app.js line 7: connectToDatabase() runs up to its await and returns
connectToDatabase ==
    /\ bootpc = "start" /\ ~exited
    /\ conn' = "pending"
    /\ attempts' = attempts + 1
    /\ bootpc' = "connect_called"
    /\ UNCHANGED <<store0, listening, exited, exitCode, store, nextId, req, started, lastOp>>

\* app.js lines 9-18: the rest of the main script, ending with app.listen(...)
appListen ==
    /\ bootpc = "connect_called" /\ ~exited
    /\ bootpc' = "main_done"
    /\ UNCHANGED <<store0, conn, attempts, listening, exited, exitCode, store, nextId, req, started, lastOp>>

\* the listener is bound and the listen callback logs the address
onListening ==
    /\ bootpc = "main_done" /\ ~exited /\ ~listening
    /\ listening' = TRUE
    /\ UNCHANGED <<store0, bootpc, conn, attempts, exited, exitCode, store, nextId, req, started, lastOp>>

\* mongoose.connect resolves: 'Database Connected!'
connectResolved ==
    /\ bootpc = "main_done" /\ ~exited /\ conn = "pending"
    /\ conn' = "connected"
    /\ UNCHANGED <<store0, bootpc, attempts, listening, exited, exitCode, store, nextId, req, started, lastOp>>

\* mongoose.connect rejects: the catch block logs and calls process.exit
connectRejected ==
    /\ bootpc = "main_done" /\ ~exited /\ conn = "pending"
    /\ conn' = "failed"
    /\ exited' = connectCatch.exited
    /\ exitCode' = connectCatch.exitCode
    /\ UNCHANGED <<store0, bootpc, attempts, listening, store, nextId, req, started, lastOp>>

\* ---- handlers ----------------------------------------------------------
Serving == listening /\ ~exited

\* the store was empty at the start and the requests before r were Adds with
\* a name (or Lists), all answered, every Add by its redirect
Clean(r) ==
    /\ store0 = {}
    /\ \A q \in 1..(r-1) :
        /\ req[q].pc = "done"
        /\ req[q].kind \in {"list", "add"}
        /\ req[q].kind = "add" => ~Falsy(req[q].name) /\ req[q].resp = <<Redirect>>

InFlightAdds == Cardinality({q \in Reqs : req[q].kind = "add" /\ req[q].pc = "await"})

\* the request reaches its handler's await
Await(r, kind, name, id) ==
    [NoReq EXCEPT !.kind = kind, !.name = name, !.id = id, !.pc = "await", !.clean = Clean(r)]

\* the store call of request r has settled with res and the handler sent
\* out; a Delete also notes the write call settled before it and whether
\* its id matched an item
Settle(r, res, out, hit) ==
    [req EXCEPT ![r].pc = "done", ![r].res = res, ![r].resp = @ \o out,
                ![r].prev = IF req[r].kind = "delete" THEN lastOp ELSE NoOp,
                ![r].matched = hit]

\* getItems up to `await Item.find()`
getItemsBegin(r) ==
    /\ Serving /\ r = started + 1
    /\ started' = r
    /\ req' = [req EXCEPT ![r] = Await(r, "list", JsUndefined, BadId)]
    /\ UNCHANGED <<store0, bootpc, conn, attempts, listening, exited, exitCode, store, nextId, lastOp>>

\* Item.find() resolves with the items or rejects, and getItems goes on to
\* res.render or to its catch block
getItemsEnd(r) ==
    /\ ~exited /\ req[r].kind = "list" /\ req[r].pc = "await"
    /\ \/ /\ conn = "connected"
          /\ \E q \in Find(store) :
                LET res == [ok |-> TRUE, items |-> q, found |-> FALSE]
                IN req' = Settle(r, res, getItemsResume(res), FALSE)
       \/ /\ conn \in {"pending", "connected"}
          /\ req' = Settle(r, NoRes, getItemsResume(NoRes), FALSE)
    /\ UNCHANGED <<store0, bootpc, conn, attempts, listening, exited, exitCode, store, nextId, started, lastOp>>

\* addItem up to `await new Item({ name }).save()`, or its early return
addItemBegin(r, name) ==
    /\ Serving /\ r = started + 1
    /\ Falsy(name) \/ nextId + InFlightAdds <= MaxId
    /\ started' = r
    /\ req' = [req EXCEPT ![r] =
            IF Falsy(name)
            THEN [Await(r, "add", name, BadId) EXCEPT !.pc = "done", !.resp = <<Redirect>>]
            ELSE Await(r, "add", name, BadId)]
    /\ UNCHANGED <<store0, bootpc, conn, attempts, listening, exited, exitCode, store, nextId, lastOp>>

\* save() validates the document and the store inserts it, or the call
\* rejects, and addItem goes on to res.redirect or to its catch block
addItemEnd(r) ==
    /\ ~exited /\ req[r].kind = "add" /\ req[r].pc = "await"
    /\ LET saved == Save(store, nextId, req[r].name)
       IN \/ /\ conn = "connected" /\ saved.ok
             /\ store' = saved.store
             /\ nextId' = nextId + 1
             /\ LET res == [ok |-> TRUE, items |-> <<>>, found |-> FALSE]
                IN req' = Settle(r, res, addItemResume(res), FALSE)
             /\ lastOp' = [kind |-> "save", id |-> BadId, ok |-> TRUE]
          \/ /\ conn \in {"pending", "connected"} \/ ~saved.ok
             /\ req' = Settle(r, NoRes, addItemResume(NoRes), FALSE)
             /\ lastOp' = [kind |-> "save", id |-> BadId, ok |-> FALSE]
             /\ UNCHANGED <<store, nextId>>
    /\ UNCHANGED <<store0, bootpc, conn, attempts, listening, exited, exitCode, started>>

\* deleteItem up to `await Item.findByIdAndDelete(id)`
deleteItemBegin(r, id) ==
    /\ Serving /\ r = started + 1
    /\ started' = r
    /\ req' = [req EXCEPT ![r] = Await(r, "delete", JsUndefined, id)]
    /\ UNCHANGED <<store0, bootpc, conn, attempts, listening, exited, exitCode, store, nextId, lastOp>>

\* findByIdAndDelete casts the id and the store removes the record, or the
\* call rejects, and deleteItem goes on to res.redirect or to its catch block
deleteItemEnd(r) ==
    /\ ~exited /\ req[r].kind = "delete" /\ req[r].pc = "await"
    /\ LET id == req[r].id
           hit == \E x \in store : x.id = id
       IN \/ /\ conn = "connected" /\ CastOk(id)
             /\ store' = FindByIdAndDelete(store, id)
             /\ LET res == [ok |-> TRUE, items |-> <<>>, found |-> hit]
                IN req' = Settle(r, res, deleteItemResume(res), hit)
             /\ lastOp' = [kind |-> "delete", id |-> id, ok |-> TRUE]
          \/ /\ conn \in {"pending", "connected"} \/ ~CastOk(id)
             /\ req' = Settle(r, NoRes, deleteItemResume(NoRes), hit)
             /\ lastOp' = [kind |-> "delete", id |-> id, ok |-> FALSE]
             /\ UNCHANGED store
    /\ UNCHANGED <<store0, bootpc, conn, attempts, listening, exited, exitCode, nextId, started>>

Next ==
    \/ connectToDatabase
    \/ appListen
    \/ onListening
    \/ connectResolved
    \/ connectRejected
    \/ \E r \in Reqs : getItemsBegin(r)
    \/ \E r \in Reqs : getItemsEnd(r)
    \/ \E r \in Reqs, name \in NameInputs : addItemBegin(r, name)
    \/ \E r \in Reqs : addItemEnd(r)
    \/ \E r \in Reqs, id \in IdParams : deleteItemBegin(r, id)
    \/ \E r \in Reqs : deleteItemEnd(r)

Spec == Init /\ [][Next]_vars

\* ---- properties --------------------------------------------------------
\* request r's store call settles in this step
Settles(r, kind) == req[r].kind = kind /\ req[r].pc = "await" /\ req'[r].pc = "done"

\* the submitted name is absent or empty
NameMissing(x) == x = JsUndefined \/ x = JsString("")

Count(q, n) == Cardinality({i \in 1..Len(q) : q[i] = n})
Submitted(r, n) == Cardinality({q \in 1..(r-1) : req[q].kind = "add" /\ req[q].name = JsString(n)})
NoLaterWrite(r) == \A q \in Reqs : q > r => req[q].kind \in {"none", "list"}
Handling == \E r \in Reqs : req[r].pc = "await"

\* C1: the listener accepts no request, and no handler runs, while the
\* connection attempt started by connectToDatabase() is still pending
C1_ListenAfterConnect ==
    (listening \/ \E r \in Reqs : req[r].pc # "new") => conn \in {"connected", "failed"}

\* C2: an Add whose name is absent or empty issues no store call, leaves the
\* store unchanged and is answered by a redirect to /, never by a 500
C2_EmptyAddIsNoOp ==
    /\ [](\A r \in Reqs : req[r].kind = "add" /\ NameMissing(req[r].name) =>
            req[r].pc = "done" /\ req[r].resp = <<Redirect>>)
    /\ [][\A r \in Reqs : req'[r] # req[r] /\ req'[r].kind = "add" /\ NameMissing(req'[r].name) =>
            store' = store]_vars
C2_Witness ==
    \E r \in Reqs : req[r].kind = "add" /\ req[r].name = JsString("") /\ req[r].pc = "done"
                    /\ store # {} /\ conn = "connected"

\* C3: from the empty store, a List issued after a sequence of Adds with
\* names has completed, none of them failing, renders each submitted name
\* once per Add that carried it and nothing else
C3_ListIsMultiset ==
    \A r \in Reqs :
        req[r].kind = "list" /\ req[r].pc = "done" /\ req[r].clean /\ req[r].res.ok /\ NoLaterWrite(r) =>
            /\ Len(req[r].resp) = 1
            /\ req[r].resp[1].kind = "render"
            /\ \A n \in {"", "Milk", "Eggs"} : Count(req[r].resp[1].list, n) = Submitted(r, n)
            /\ Len(req[r].resp[1].list) = Cardinality({q \in 1..(r-1) : req[q].kind = "add"})
C3_Witness ==
    \E r \in Reqs :
        /\ req[r].kind = "list" /\ req[r].pc = "done" /\ req[r].clean /\ req[r].res.ok
        /\ Len(req[r].resp) = 1 /\ Len(req[r].resp[1].list) = 2

\* C4 as stated: a Delete whose id matches no item leaves the store
\* unchanged and is answered by a redirect to /, not by an error
C4_MissingIdRedirects ==
    /\ [](\A r \in Reqs : req[r].kind = "delete" /\ req[r].pc = "done" /\ ~req[r].matched =>
            req[r].resp = <<Redirect>>)
    /\ [][\A r \in Reqs : Settles(r, "delete") /\ ~(\E x \in store : x.id = req[r].id) =>
            store' = store]_vars
\* C4 amended: a Delete whose id matches no item leaves the store unchanged,
\* and is answered by a redirect to / when its store call does not fail
C4_MissingIdRedirectsUnlessFailed ==
    /\ [](\A r \in Reqs : req[r].kind = "delete" /\ req[r].pc = "done" /\ ~req[r].matched /\ req[r].res.ok =>
            req[r].resp = <<Redirect>>)
    /\ [][\A r \in Reqs : Settles(r, "delete") /\ ~(\E x \in store : x.id = req[r].id) =>
            store' = store]_vars
C4_Witness ==
    \E r \in Reqs : req[r].kind = "delete" /\ req[r].pc = "done" /\ ~req[r].matched /\ req[r].res.ok
                    /\ store # {}

\* C5: a Delete whose id matches an item, the store not failing, removes
\* exactly that item: the count drops by one and every other item stays
C5_DeleteRemovesExactlyOne ==
    [][\A r \in Reqs :
        Settles(r, "delete") /\ req'[r].res.ok /\ (\E x \in store : x.id = req[r].id) =>
            /\ Cardinality(store') = Cardinality(store) - 1
            /\ store' \subseteq store
            /\ \A x \in store : x \in store' <=> x.id # req[r].id]_vars
C5_Witness ==
    \E r \in Reqs : req[r].kind = "delete" /\ req[r].pc = "done" /\ req[r].matched /\ req[r].res.ok
                    /\ store # {}

\* C6 as stated: a second Delete with the same id, right after the first,
\* leaves the store as the first left it and is answered by a redirect to /
C6_DeleteIdempotent ==
    /\ [](\A r \in Reqs : req[r].kind = "delete" /\ req[r].pc = "done"
                          /\ req[r].prev.kind = "delete" /\ req[r].prev.id = req[r].id =>
            req[r].resp = <<Redirect>>)
    /\ [][\A r \in Reqs : Settles(r, "delete") /\ lastOp.kind = "delete" /\ lastOp.id = req[r].id =>
            store' = store]_vars
\* C6 amended: when the first Delete's store call succeeds, a second Delete
\* with the same id right after it leaves the store as the first left it,
\* and is answered by a redirect to / when its own store call does not fail
C6_DeleteIdempotentUnlessFailed ==
    /\ [](\A r \in Reqs : req[r].kind = "delete" /\ req[r].pc = "done" /\ req[r].res.ok
                          /\ req[r].prev.kind = "delete" /\ req[r].prev.id = req[r].id /\ req[r].prev.ok =>
            req[r].resp = <<Redirect>>)
    /\ [][\A r \in Reqs : Settles(r, "delete") /\ lastOp.kind = "delete" /\ lastOp.id = req[r].id /\ lastOp.ok =>
            store' = store]_vars
C6_Witness ==
    \E r \in Reqs : /\ req[r].kind = "delete" /\ req[r].pc = "done" /\ req[r].res.ok
                    /\ req[r].prev = [kind |-> "delete", id |-> req[r].id, ok |-> TRUE]
                    /\ \E q \in Reqs : q # r /\ req[q].kind = "delete" /\ req[q].id = req[r].id /\ req[q].matched

\* C7: a handler whose store call fails answers 500 with the fixed text of
\* its operation, and neither renders nor redirects
C7_StoreFailureIs500 ==
    \A r \in Reqs : req[r].pc = "done" /\ ~req[r].res.ok /\ ~(req[r].kind = "add" /\ NameMissing(req[r].name)) =>
        /\ Len(req[r].resp) = 1
        /\ req[r].resp[1].status = 500
        /\ req[r].resp[1].kind = "send"
        /\ req[r].kind = "list" => req[r].resp[1].text = "Error fetching items"
        /\ req[r].kind = "add" => req[r].resp[1].text = "Error saving item"
        /\ req[r].kind = "delete" => req[r].resp[1].text = "Error deleting item"
C7_Witness ==
    /\ \E r \in Reqs : req[r].kind = "list" /\ req[r].pc = "done" /\ ~req[r].res.ok
    /\ \E r \in Reqs : req[r].kind = "add" /\ req[r].pc = "done" /\ ~req[r].res.ok /\ ~NameMissing(req[r].name)
    /\ \E r \in Reqs : req[r].kind = "delete" /\ req[r].pc = "done" /\ ~req[r].res.ok /\ req[r].id # BadId

\* C8: every item held in the store has a non-empty name
C8_NamesNonEmpty == \A x \in store : x.name # ""
C8_Witness ==
    /\ Cardinality(store) = 2
    /\ \E r \in Reqs : req[r].kind = "add" /\ NameMissing(req[r].name) /\ req[r].pc = "done"

\* C9: a failed connection attempt ends the process with a non-zero exit
\* code, the connection is attempted once, nothing is handled after the
\* exit, and a process whose attempt succeeded does not exit
C9_FailFast ==
    /\ [](conn = "failed" => exited /\ exitCode # 0)
    /\ [](attempts <= 1)
    /\ [](conn = "connected" => ~exited)
    /\ [][exited => req' = req /\ store' = store /\ attempts' = attempts]_vars
C9_Witness == conn = "failed" /\ exited /\ Handling

\* C10: a handler sends at most one response, and exactly one (a render, a
\* redirect to / or a 500) once its store call has settled or was skipped;
\* a request without a response is one whose store call has not returned
C10_OneResponse ==
    \A r \in Reqs :
        /\ Len(req[r].resp) <= 1
        /\ req[r].pc = "done" =>
            /\ Len(req[r].resp) = 1
            /\ \/ req[r].resp[1].kind = "render" /\ req[r].resp[1].status = 200
               \/ req[r].resp[1] = Redirect
               \/ req[r].resp[1].kind = "send" /\ req[r].resp[1].status = 500
        /\ req[r].kind # "none" /\ req[r].resp = <<>> => req[r].pc = "await"
C10_Witness ==
    /\ \E r \in Reqs : req[r].pc = "done" /\ req[r].resp[1].kind = "render"
    /\ \E r \in Reqs : req[r].pc = "done" /\ req[r].resp[1].kind = "send"
    /\ \E r \in Reqs : req[r].pc = "done" /\ req[r].resp[1].kind = "redirect" /\ req[r].res.ok

====
